---- MODULE Spec2Model ----
(***************************************************************************)
(* kerastuner.engine: one Instance (a model configuration) and the         *)
(* InstanceExecutions (training runs) it owns.                             *)
(*                                                                         *)
(* Every call of the public API (Instance.fit, Instance.record_results) is *)
(* one atomic action: the code is single-threaded and synchronous.  The    *)
(* training framework (keras), the clock and the persistence layer are the *)
(* environment: what they return is an input of the action, what they are  *)
(* asked to do is written to the call log `io` of the latest call.         *)
(*                                                                         *)
(* Numbers of the histories are in tenths (5 stands for 0.5); mean and     *)
(* median are exact rationals [num, den] in lowest terms.                  *)
(***************************************************************************)
EXTENDS Integers, Sequences, FiniteSets, TLC

\* ------------------------------------------------------------------ bounds
MaxExecutions == 2      \* executions created per instance
MaxEpochs == 2          \* epochs of one training call's history
MaxTime == 1            \* largest reading of the clock (whole seconds)

\* ------------------------------------------------------------- input domains
MetricNames == {"loss", "acc"}
Values == {5, 7}
KerasFunctions == {"fit", "generator", "predict"}
Directions == {"min", "max"}

\* the canonical model of the Instance is object 0; clones and wrappers are
\* allocated on `heap` from 1
CanonicalModel == 0

\* meta_data as the caller supplies it (the keys the code reads)
CallerMetaData == [project |-> "proj", architecture |-> "arch", local_dir |-> "dir"]

\* ------------------------------------------------------------------ helpers
Last(s) == s[Len(s)]

RECURSIVE SeqSum(_)
SeqSum(s) == IF s = <<>> THEN 0 ELSE Head(s) + SeqSum(Tail(s))

RECURSIVE Gcd(_, _)
Gcd(a, b) == IF b = 0 THEN a ELSE Gcd(b, a % b)

\* the number num/den (den > 0, num >= 0) in lowest terms
Rat(num, den) == LET g == Gcd(num, den) IN [num |-> num \div g, den |-> den \div g]

\* python min() / max(), numpy.min / numpy.max of a non-empty sequence: the
\* first item, replaced by every later item that is smaller / larger
RECURSIVE SeqMin(_)
SeqMin(s) ==
  IF Len(s) = 1 THEN s[1]
  ELSE LET m == SeqMin(SubSeq(s, 1, Len(s) - 1))
       IN IF Last(s) < m THEN Last(s) ELSE m

RECURSIVE SeqMax(_)
SeqMax(s) ==
  IF Len(s) = 1 THEN s[1]
  ELSE LET m == SeqMax(SubSeq(s, 1, Len(s) - 1))
       IN IF Last(s) > m THEN Last(s) ELSE m

\* insertion of v into the sorted sequence s
RECURSIVE Insert(_, _)
Insert(v, s) ==
  IF s = <<>> THEN <<v>>
  ELSE IF v <= Head(s) THEN <<v>> \o s
  ELSE <<Head(s)>> \o Insert(v, Tail(s))

RECURSIVE Sorted(_)
Sorted(s) == IF s = <<>> THEN <<>> ELSE Insert(Head(s), Sorted(Tail(s)))

\* numpy.mean
NpMean(s) == Rat(SeqSum(s), Len(s))

\* a median that takes the upper of two middle values
NpMedianUpper(s) == Rat(Sorted(s)[Len(s) \div 2 + 1], 1)

\* numpy.median: the middle of the sorted data, the mean of the two middle
\* values when their number is even
NpMedian(s) ==
  LET t == Sorted(s)
      n == Len(s)
  IN IF n % 2 = 1 THEN Rat(t[(n + 1) \div 2], 1)
     ELSE Rat(t[n \div 2] + t[n \div 2 + 1], 2)

\* the histories a training call can return: every reported metric has one
\* value per epoch run (keras appends to every key at each epoch end)
HistoriesOf(names, values, maxEpochs) ==
  UNION {[m -> [1..n -> values]] : <<m, n>> \in (SUBSET names) \X (1..maxEpochs)}

Histories == HistoriesOf(MetricNames, Values, MaxEpochs)

\* ---------------------------------------------------------------- variables
VARIABLES
  keras_function,   \* Instance.keras_function
  num_gpu,          \* Instance.num_gpu
  save_models,      \* Instance.save_models
  display_model,    \* Instance.display_model
  key_metrics,      \* Instance.key_metrics: sequence of <<name, direction>>
  meta_data,        \* Instance.meta_data
  training_size,    \* Instance.training_size
  validation_size,  \* Instance.validation_size
  executions,       \* Instance.executions
  heap,             \* the model objects built so far: heap[oid] = [kind, of]
  now,              \* the clock, int(time.time())
  io,               \* the external calls of the latest API call, in order
  call              \* the latest API call: its arguments and how it ended

vars == <<keras_function, num_gpu, save_models, display_model, key_metrics,
          meta_data, training_size, validation_size, executions, heap, now,
          io, call>>

config == <<keras_function, num_gpu, save_models, display_model, key_metrics,
            meta_data>>

\* --------------------------------------------------------- constructor inputs
\* Instance.__init__: idx, batch_size and hyper_parameters are stored verbatim
InstanceIdx == "idx"

\* Instance.ts: the reading of the clock at construction
ConstructionTime == 0

\* ---------------------------------------------------------- InstanceExecution
\* keras.models.clone_model / keras.utils.multi_gpu_model: a new model object
\* built from the object `of`
NewModel(kind, of) == [kind |-> kind, of |-> of]

\* InstanceExecution.__init__: the new object, the heap with the models it
\* built, and the framework calls it made.  The replica-parallel wrapper is
\* bound to the local name `model` only: no attribute of the object keeps it.
ExecutionInit(model, idx, md, ngpu, dmodel, dinfo, info, kmetrics, kfunction, smodels, t, h) ==
  LET clone == Len(h) + 1
      wrapper == Len(h) + 2
      base_summary ==
        IF (dmodel = "base" \/ dmodel = "both") /\ dinfo
        THEN <<[op |-> "summary", target |-> clone]>> ELSE <<>>
      multi_summary ==
        IF (dmodel = "multi-gpu" \/ dmodel = "both") /\ dinfo
        THEN <<[op |-> "summary", target |-> clone]>> ELSE <<>>
      self == [ts |-> t,
               idx |-> idx,
               meta_data |-> [k \in DOMAIN md \cup {"execution"} |->
                                IF k = "execution" THEN t ELSE md[k]],
               num_epochs |-> -1,
               num_gpu |-> ngpu,
               display_model |-> dmodel,
               display_info |-> dinfo,
               save_models |-> smodels,
               model |-> clone,
               instance_info |-> info,
               key_metrics |-> kmetrics,
               keras_function |-> kfunction,
               recorded |-> FALSE,
               history |-> <<>>,
               metrics |-> <<>>]
      built == <<[op |-> "clone_model", target |-> model, result |-> clone],
                 [op |-> "compile", target |-> clone]>> \o base_summary
  IN IF ngpu > 1
     THEN [obj |-> self,
           heap |-> h \o <<NewModel("clone", model), NewModel("wrapper", clone)>>,
           io |-> built
                  \o <<[op |-> "multi_gpu_model", target |-> clone, result |-> wrapper],
                       [op |-> "compile", target |-> wrapper]>>
                  \o multi_summary]
     ELSE [obj |-> self,
           heap |-> Append(h, NewModel("clone", model)),
           io |-> built]

\* the results-recording callback of one training call
TunerCallback(info, kmetrics, md) ==
  [type |-> "TunerCallback", instance_info |-> info, key_metrics |-> kmetrics,
   meta_data |-> md]

\* training that goes to the model the Instance handed over
TrainedOriginal(self) == CanonicalModel

\* the model InstanceExecution.fit calls the training entry point on
TrainedModel(self) == self.model

\* the call of a training entry point
TrainCall(fn, self, kwargs, callbacks) ==
  [op |-> fn, target |-> TrainedModel(self), passes_y |-> (fn = "fit"),
   initial_epoch |-> kwargs.initial_epoch,
   validation_data |-> kwargs.validation_data,
   callbacks |-> callbacks]

\* a dispatch whose last branch is the array-based entry point
DispatchDefaultFit(kfunction) ==
  IF kfunction = "generator" THEN "fit_generator" ELSE "fit"

\* the entry point InstanceExecution.fit dispatches to; "" when
\* keras_function names none, and then `results` is never bound
Dispatch(kfunction) ==
  IF kfunction = "fit" THEN "fit"
  ELSE IF kfunction = "generator" THEN "fit_generator"
  ELSE ""

\* a copy that is the caller's own list object
SameList(callbacks) == [items |-> callbacks, caller_owned |-> TRUE]

\* copy.deepcopy(callbacks): a list of equal items that shares nothing with
\* the caller's list
DeepCopy(callbacks) == [items |-> callbacks, caller_owned |-> FALSE]

\* InstanceExecution.fit: how the call ends (raised = "" when it returns),
\* the value it returns, the framework calls it made and the caller's
\* callbacks list as the call leaves it (`given`).  fw is what the training
\* entry point does when called: [raises, history].
\*   - a TensorBoard callback makes the loop read self.model_name, which no
\*     InstanceExecution has: AttributeError
\*   - with keras_function neither 'fit' nor 'generator' the Exception is
\*     built but not raised, and `return results` reads an unbound local:
\*     UnboundLocalError
ExecutionFit(self, kwargs, fw) ==
  LET tcb == TunerCallback(self.instance_info, self.key_metrics, self.meta_data)
      given == kwargs.callbacks
      patched == \E i \in 1..Len(given) : given[i].type = "TensorBoard"
      copy == DeepCopy(given)
      callbacks == IF given # <<>> THEN Append(copy.items, tcb) ELSE <<tcb>>
      \* callbacks.append(tcb) is seen by the caller only through a list
      \* the caller owns
      appended == IF given # <<>> /\ copy.caller_owned THEN callbacks ELSE given
      fn == Dispatch(self.keras_function)
  IN IF given # <<>> /\ patched
     THEN [raised |-> "AttributeError", results |-> <<>>, io |-> <<>>,
           given |-> given]
     ELSE IF fn = ""
     THEN [raised |-> "UnboundLocalError", results |-> <<>>, io |-> <<>>,
           given |-> appended]
     ELSE IF fw.raises
     THEN [raised |-> "FrameworkError", results |-> <<>>,
           io |-> <<TrainCall(fn, self, kwargs, callbacks)>>, given |-> appended]
     ELSE [raised |-> "", results |-> [history |-> fw.history],
           io |-> <<TrainCall(fn, self, kwargs, callbacks)>>, given |-> appended]

\* len(self.history): the number of entries of the mapping
NumEpochsOf(history) == Cardinality(DOMAIN history)

\* a summary that takes the first and the last epoch for the extremes
MetricResultsFirstLast(data) == [min |-> data[1], max |-> Last(data)]

\* the {min, max} summary of one metric's values
MetricResults(data) == [min |-> SeqMin(data), max |-> SeqMax(data)]

\* "<project>-<architecture>-<instance>-<execution>-<suffix>" under local_dir
ExecutionPath(md, suffix) ==
  <<md.local_dir, md.project, md.architecture, md.instance, md.execution, suffix>>

\* the model a save call of record_results targets
SavedModel(self) == self.model

\* a save that writes the weights before the config
ExecutionSaveWeightsFirst(self) ==
  IF self.save_models
  THEN <<[op |-> "save_weights", path |-> ExecutionPath(self.meta_data, "weights.h5"),
          target |-> SavedModel(self)],
         [op |-> "cloud_save", path |-> ExecutionPath(self.meta_data, "weights.h5"),
          ftype |-> "weights", meta_data |-> self.meta_data],
         [op |-> "write", path |-> ExecutionPath(self.meta_data, "config.json"),
          to_json |-> SavedModel(self)],
         [op |-> "cloud_save", path |-> ExecutionPath(self.meta_data, "config.json"),
          ftype |-> "config", meta_data |-> self.meta_data]>>
  ELSE <<>>

\* the artifacts InstanceExecution.record_results saves
ExecutionSave(self) ==
  IF self.save_models
  THEN <<[op |-> "write", path |-> ExecutionPath(self.meta_data, "config.json"),
          to_json |-> SavedModel(self)],
         [op |-> "cloud_save", path |-> ExecutionPath(self.meta_data, "config.json"),
          ftype |-> "config", meta_data |-> self.meta_data],
         [op |-> "save_weights", path |-> ExecutionPath(self.meta_data, "weights.h5"),
          target |-> SavedModel(self)],
         [op |-> "cloud_save", path |-> ExecutionPath(self.meta_data, "weights.h5"),
          ftype |-> "weights", meta_data |-> self.meta_data]>>
  ELSE <<>>

\* a record_results that keeps nothing of the results
ExecutionRecordNothing(self, results, t) == [obj |-> self, io |-> <<>>]

\* InstanceExecution.record_results: the object afterwards and the calls made
ExecutionRecordResults(self, results, t) ==
  LET history == results.history
      recorded == [self EXCEPT !.history = history,
                               !.num_epochs = NumEpochsOf(history),
                               !.ts = t,
                               !.metrics = [m \in DOMAIN history |-> MetricResults(history[m])],
                               !.recorded = TRUE]
  IN [obj |-> recorded, io |-> ExecutionSave(recorded)]

\* -------------------------------------------------------------------- Instance
\* Instance.__get_instance_info, read when the fields have these values
GetInstanceInfoCounted(tsize, vsize, execs) ==
  [key_metrics |-> <<>>,
   ts |-> ConstructionTime,
   training_size |-> tsize,
   validation_size |-> vsize,
   num_executions |-> Len(execs) + 1,
   model |-> [to_json |-> CanonicalModel],
   batch_size |-> "batch_size",
   model_size |-> "model_size",
   hyper_parameters |-> "hyper_parameters"]

GetInstanceInfo(tsize, vsize, execs) ==
  [key_metrics |-> <<>>,
   ts |-> ConstructionTime,
   training_size |-> tsize,
   validation_size |-> vsize,
   num_executions |-> Len(execs),
   model |-> [to_json |-> CanonicalModel],
   batch_size |-> "batch_size",
   model_size |-> "model_size",
   hyper_parameters |-> "hyper_parameters"]

\* Instance.__new_execution: the constructor's result; info is displayed for
\* the first execution only.  The caller appends obj to executions.
NewExecution(tsize, vsize, t) ==
  LET first == Len(executions) = 0
  IN ExecutionInit(CanonicalModel, InstanceIdx, meta_data, num_gpu,
                   IF first THEN display_model ELSE "None", first,
                   GetInstanceInfo(tsize, vsize, executions),
                   key_metrics, keras_function, save_models, t, heap)

\* executions with obj put in front
AppendedFirst(execs, obj) == <<obj>> \o execs

\* executions after __new_execution appended obj
Appended(execs, obj) == Append(execs, obj)

\* the branch of Instance.fit: resume the last execution, or create one
Resumes(resume_execution) == resume_execution /\ Len(executions) > 0

\* a resumed call that restarts the epoch numbering
ResumeEpochRestart(execution) == <<0>>

\* initial_epoch as Instance.fit passes it when it resumes `execution`
ResumeEpoch(execution) == <<execution.num_epochs>>

\* a size taken from the first element of validation_data
ValidationSizeOfInputs(validation_data, size) ==
  IF validation_data # <<>> THEN validation_data[1] ELSE size

\* Instance.validation_size after a call with this validation_data:
\* len(validation_data[1]) when the caller passed one (python counts from 0)
ValidationSize(validation_data, size) ==
  IF validation_data # <<>> THEN validation_data[2] ELSE size

\* Instance.fit(x, y, resume_execution, validation_data=, callbacks=), y and
\* the two elements of validation_data given by their lengths;
\* validation_data and callbacks are <<>> when the caller passes none (or an
\* empty one).  wait is the time since the last
\* reading of the clock, train the time the training call takes, fw what
\* the training entry point does when called.
InstanceFit(y, validation_data, resume_execution, callbacks, fw, wait, train) ==
  LET t == now + wait
      resumed == Resumes(resume_execution)
      vsize == ValidationSize(validation_data, validation_size)
      made == NewExecution(y, vsize, t)
      execution == IF resumed THEN Last(executions) ELSE made.obj
      execs == IF resumed THEN executions ELSE Appended(executions, made.obj)
      at == Len(execs)
      kwargs == [callbacks |-> callbacks,
                 validation_data |-> validation_data,
                 initial_epoch |-> IF resumed THEN ResumeEpoch(execution) ELSE <<>>]
      fitted == ExecutionFit(execution, kwargs, fw)
      recorded == ExecutionRecordResults(execution, fitted.results, t + train)
      args == [resume_execution |-> resume_execution, y |-> y,
               validation_data |-> validation_data, callbacks |-> callbacks]
  IN /\ t + train <= MaxTime
     /\ resumed \/ Len(executions) < MaxExecutions
     /\ training_size' = y
     /\ validation_size' = vsize
     /\ heap' = IF resumed THEN heap ELSE made.heap
     /\ IF fitted.raised # ""
        THEN /\ executions' = execs
             /\ now' = t
             /\ io' = (IF resumed THEN <<>> ELSE made.io) \o fitted.io
             /\ call' = [op |-> "fit", args |-> args, raised |-> fitted.raised,
                         value |-> <<>>, caller_callbacks |-> fitted.given]
        ELSE /\ executions' = [execs EXCEPT ![at] = recorded.obj]
             /\ now' = t + train
             /\ io' = (IF resumed THEN <<>> ELSE made.io) \o fitted.io \o recorded.io
             /\ call' = [op |-> "fit", args |-> args, raised |-> "",
                         value |-> fitted.results, caller_callbacks |-> fitted.given]
     /\ UNCHANGED config

\* the values of one direction of one metric over the executions that
\* report the metric, in the order of the executions
RECURSIVE Collected(_, _, _)
Collected(execs, metric, direction) ==
  IF execs = <<>> THEN <<>>
  ELSE (IF metric \in DOMAIN Head(execs).metrics
        THEN <<Head(execs).metrics[metric][direction]>> ELSE <<>>)
       \o Collected(Tail(execs), metric, direction)

\* the second-order statistic of one collected sequence
Aggregate(data) ==
  [min |-> SeqMin(data), max |-> SeqMax(data),
   mean |-> NpMean(data), median |-> NpMedian(data)]

\* results['metrics']: every metric some execution reports, both directions
AggregateMetrics(execs) ==
  LET reported == UNION {DOMAIN execs[i].metrics : i \in 1..Len(execs)}
  IN [m \in reported |->
        [d \in Directions |-> Aggregate(Collected(execs, m, d))]]

\* a loop that reports every configured key metric, 0 when no execution
\* reported it
RECURSIVE KeyMetricsDefaulting(_, _, _)
KeyMetricsDefaulting(kmetrics, metrics, acc) ==
  IF kmetrics = <<>> THEN acc
  ELSE LET tm == Head(kmetrics)
       IN KeyMetricsDefaulting(Tail(kmetrics), metrics,
            [k \in DOMAIN acc \cup {tm[1]} |->
               IF k # tm[1] THEN acc[k]
               ELSE IF tm[1] \in DOMAIN metrics THEN metrics[tm[1]][tm[2]].median
               ELSE Rat(0, 1)])

\* a loop that keeps the first value assigned to a name
RECURSIVE KeyMetricsFirstWins(_, _, _)
KeyMetricsFirstWins(kmetrics, metrics, acc) ==
  IF kmetrics = <<>> THEN acc
  ELSE LET tm == Head(kmetrics)
       IN KeyMetricsFirstWins(Tail(kmetrics), metrics,
            IF tm[1] \in DOMAIN metrics /\ tm[1] \notin DOMAIN acc
            THEN [k \in DOMAIN acc \cup {tm[1]} |->
                    IF k = tm[1] THEN metrics[tm[1]][tm[2]].median ELSE acc[k]]
            ELSE acc)

\* the loop over self.key_metrics: each pair whose metric is aggregated
\* assigns results['key_metrics'][name]; a later pair overwrites an earlier one
RECURSIVE KeyMetrics(_, _, _)
KeyMetrics(kmetrics, metrics, acc) ==
  IF kmetrics = <<>> THEN acc
  ELSE LET tm == Head(kmetrics)
       IN KeyMetrics(Tail(kmetrics), metrics,
            IF tm[1] \in DOMAIN metrics
            THEN [k \in DOMAIN acc \cup {tm[1]} |->
                    IF k = tm[1] THEN metrics[tm[1]][tm[2]].median ELSE acc[k]]
            ELSE acc)

\* the detail record of one execution
ExecutionInfo(execution) ==
  [num_epochs |-> execution.num_epochs,
   history |-> execution.history,
   loss_fn |-> [loss_of |-> execution.model],
   loss_weigths |-> [loss_weights_of |-> execution.model],
   meta_data |-> execution.meta_data]

\* "<project>-<architecture>-<instance>-results.json" under local_dir
ResultsPath(md) ==
  <<md.local_dir, md.project, md.architecture, md.instance, "results.json">>

\* the report Instance.record_results assembles
Report ==
  LET info == GetInstanceInfo(training_size, validation_size, executions)
      metrics == AggregateMetrics(executions)
  IN [k \in DOMAIN info \cup {"executions", "meta_data", "metrics"} |->
        IF k = "executions" THEN [i \in 1..Len(executions) |-> ExecutionInfo(executions[i])]
        ELSE IF k = "meta_data" THEN meta_data
        ELSE IF k = "metrics" THEN metrics
        ELSE IF k = "key_metrics" THEN KeyMetrics(key_metrics, metrics, info.key_metrics)
        ELSE info[k]]

\* Instance.record_results().  An execution that never recorded results has
\* no `metrics` attribute: reading it raises AttributeError before anything
\* is written.
InstanceRecordResults ==
  LET unrecorded == \E i \in 1..Len(executions) : ~executions[i].recorded
      path == ResultsPath(meta_data)
  IN /\ IF unrecorded
        THEN /\ io' = <<>>
             /\ call' = [op |-> "record_results", args |-> <<>>,
                         raised |-> "AttributeError", value |-> <<>>]
        ELSE /\ io' = <<[op |-> "write", path |-> path, dumps |-> Report],
                        [op |-> "cloud_save", path |-> path, ftype |-> "results",
                         meta_data |-> meta_data]>>
             /\ call' = [op |-> "record_results", args |-> <<>>,
                         raised |-> "", value |-> Report]
     /\ UNCHANGED <<config, training_size, validation_size, executions, heap, now>>

\* --------------------------------------------------------------- the system
\* the callbacks a caller passes
Callbacks ==
  {<<>>,
   <<[type |-> "ReduceLROnPlateau"], [type |-> "EarlyStopping"]>>,
   <<[type |-> "TensorBoard", log_dir |-> <<"logs">>]>>}

\* the key metrics an Instance is configured with
KeyMetricChoices ==
  {<<>>,
   <<<<"loss", "min">>, <<"val_loss", "min">>>>,
   <<<<"acc", "max">>, <<"loss", "max">>>>,
   <<<<"acc", "min">>, <<"acc", "max">>>>}

\* what a training entry point does when called
Framework(histories) ==
  [raises : {FALSE}, history : histories] \cup [raises : {TRUE}, history : {<<>>}]

\* Instance.__init__ with its arguments drawn from the given sets
InitOf(kfunctions, gpus, saves, displays, kmetrics) ==
  /\ keras_function \in kfunctions
  /\ num_gpu \in gpus
  /\ save_models \in saves
  /\ display_model \in displays
  /\ key_metrics \in kmetrics
  /\ meta_data = [k \in DOMAIN CallerMetaData \cup {"instance"} |->
                    IF k = "instance" THEN InstanceIdx ELSE CallerMetaData[k]]
  /\ training_size = -1
  /\ validation_size = 0
  /\ executions = <<>>
  /\ heap = <<>>
  /\ now = ConstructionTime
  /\ io = <<>>
  /\ call = [op |-> "init", args |-> <<>>, raised |-> "", value |-> <<>>]

\* a call of Instance.fit with its arguments and the environment's answers
\* drawn from the given sets
Fit(ys, vals, resumes, cbs, fws, waits) ==
  \E y \in ys, v \in vals, r \in resumes, cb \in cbs, fw \in fws,
     wait \in waits, train \in waits :
    InstanceFit(y, v, r, cb, fw, wait, train)

\* Instances of every training mode and replica count; the training calls
\* return histories of one epoch
Init == InitOf(KerasFunctions, {1, 2}, BOOLEAN, {"both"}, {<<<<"loss", "min">>>>})

Next ==
  \/ Fit({2}, {<<>>}, BOOLEAN, Callbacks, Framework(HistoriesOf(MetricNames, {5}, 1)), {0})
  \/ InstanceRecordResults

Spec == Init /\ [][Next]_vars

\* one Instance whose first execution is resumed by every later call; the
\* training calls return every history of up to MaxEpochs epochs
InitRecord == InitOf({"fit", "generator"}, {1}, BOOLEAN, {"none"}, {<<>>})

NextRecord ==
  \/ Fit({2}, {<<>>}, {TRUE}, {<<>>}, Framework(Histories), {0})
  \/ InstanceRecordResults

SpecRecord == InitRecord /\ [][NextRecord]_vars

\* Instances of every key-metric configuration, each call a new execution;
\* the training calls report one metric over up to MaxEpochs epochs or
\* every metric over one epoch
InitReport == InitOf({"fit"}, {1}, {FALSE}, {"none"}, KeyMetricChoices)

NextReport ==
  \/ Fit({2}, {<<>>}, {FALSE}, {<<>>},
         Framework(HistoriesOf({"acc"}, Values, MaxEpochs)
                   \cup HistoriesOf(MetricNames, Values, 1)), {0})
  \/ InstanceRecordResults

SpecReport == InitReport /\ [][NextReport]_vars

\* one Instance fitted on data of several sizes, with and without
\* validation data whose inputs and targets are told apart by their lengths
InitSizes == InitOf({"fit"}, {1}, {FALSE}, {"none"}, {<<>>})

NextSizes ==
  \/ Fit({1, 3}, {<<>>, <<1, 2>>}, BOOLEAN, {<<>>},
         Framework(HistoriesOf({"loss"}, {5}, 1)), {0})
  \/ InstanceRecordResults

SpecSizes == InitSizes /\ [][NextSizes]_vars

\* one saving Instance under a clock of whole seconds: a call may start, and
\* its training may end, in the second of the call before or in a later one
InitClock == InitOf({"fit"}, {1, 2}, {TRUE}, {"none"}, {<<>>})

NextClock ==
  \/ Fit({2}, {<<>>}, BOOLEAN, {<<>>},
         Framework(HistoriesOf({"loss"}, Values, 1)), 0..MaxTime)
  \/ InstanceRecordResults

SpecClock == InitClock /\ [][NextClock]_vars

\* ------------------------------------------------------------------ claims
\* the training calls among the external calls `log`
TrainCalls(log) == SelectSeq(log, LAMBDA c : c.op \in {"fit", "fit_generator"})

Range(s) == {s[i] : i \in 1..Len(s)}

\* m is the least / the greatest item of the non-empty sequence s
IsMinOf(m, s) == m \in Range(s) /\ \A v \in Range(s) : m <= v

IsMaxOf(m, s) == m \in Range(s) /\ \A v \in Range(s) : m >= v

\* C1: a fit call on an Execution whose training mode is neither 'fit' nor
\* 'generator' raises to the caller, calls neither model.fit nor
\* model.fit_generator, and returns no result.
C1_UnknownModeRaises ==
  (call.op = "fit" /\ Last(executions).keras_function \notin {"fit", "generator"})
    => /\ call.raised # ""
       /\ call.value = <<>>
       /\ TrainCalls(io) = <<>>

C1_Witness ==
  /\ call.op = "fit"
  /\ Last(executions).keras_function = "predict"
  /\ call.args.callbacks = <<>>
  /\ call.raised = "UnboundLocalError"

\* C2: after record_results(results) the execution holds results.history,
\* num_epochs is the number of entries of that mapping, metrics has the keys
\* of the history, and each metrics[key] is {min, max} of the key's values.
C2_RecordedSummary ==
  (call.op = "fit" /\ call.raised = "")
    => LET e == Last(executions)
           h == call.value.history
       IN /\ e.recorded
          /\ e.history = h
          /\ e.num_epochs = Cardinality(DOMAIN h)
          /\ DOMAIN e.metrics = DOMAIN h
          /\ \A k \in DOMAIN h :
               /\ DOMAIN e.metrics[k] = {"min", "max"}
               /\ IsMinOf(e.metrics[k].min, h[k])
               /\ IsMaxOf(e.metrics[k].max, h[k])

C2_Witness ==
  /\ call.op = "fit"
  /\ call.raised = ""
  /\ call.value.history = [k \in {"loss", "acc"} |->
                             IF k = "loss" THEN <<7, 5>> ELSE <<5, 7>>]
  /\ Last(executions).metrics = [k \in {"loss", "acc"} |-> [min |-> 5, max |-> 7]]

\* C3: num_epochs is -1 until record_results is called, and afterwards the
\* number of recorded epochs: the length of the value sequence of every
\* metric of the recorded history.
C3_NumEpochsCountsEpochs ==
  \A i \in 1..Len(executions) :
    LET e == executions[i]
    IN IF e.recorded
       THEN \A k \in DOMAIN e.history : e.num_epochs = Len(e.history[k])
       ELSE e.num_epochs = -1

\* the step is a call of Instance.fit that takes the resume branch
ResumedFit == call'.op = "fit" /\ call'.args.resume_execution /\ Len(executions) > 0

\* the step is a call of Instance.fit that takes the other branch
CreatingFit == call'.op = "fit" /\ ~(call'.args.resume_execution /\ Len(executions) > 0)

\* C4: Instance.fit with resume_execution and at least one Execution creates
\* none and trains executions[-1] with initial_epoch = its num_epochs at the
\* moment of the call; every other call creates an Execution and trains it
\* without initial_epoch.  A call that returns has trained exactly once.
C4_ResumeOrCreate ==
  [][LET calls == TrainCalls(io')
     IN /\ ResumedFit =>
             /\ Len(executions') = Len(executions)
             /\ heap' = heap
             /\ Len(calls) <= 1
             /\ call'.raised = "" => Len(calls) = 1
             /\ \A i \in 1..Len(calls) :
                  /\ calls[i].target = Last(executions).model
                  /\ calls[i].initial_epoch = <<Last(executions).num_epochs>>
        /\ CreatingFit =>
             /\ Len(executions') = Len(executions) + 1
             /\ Last(executions').model \notin {executions[i].model : i \in 1..Len(executions)}
             /\ Len(calls) <= 1
             /\ call'.raised = "" => Len(calls) = 1
             /\ \A i \in 1..Len(calls) :
                  /\ calls[i].target = Last(executions').model
                  /\ calls[i].initial_epoch = <<>>
    ]_vars

C4_Witness ==
  /\ call.op = "fit"
  /\ call.args.resume_execution
  /\ call.raised = ""
  /\ Len(executions) = 1
  /\ Len(TrainCalls(io)) = 1
  /\ TrainCalls(io)[1].initial_epoch = <<2>>

\* C5: over resumed Instance.fit calls on one Execution the epoch numbering
\* is monotone: num_epochs never decreases from one record_results to the
\* next, and the initial_epoch of a resumed training call is never smaller
\* than the one of the resumed call before it.
C5_EpochsMonotone ==
  [][ResumedFit =>
       /\ (Last(executions).recorded /\ call'.raised = "")
            => Last(executions').num_epochs >= Last(executions).num_epochs
       /\ (/\ call.op = "fit"
           /\ TrainCalls(io) # <<>>
           /\ TrainCalls(io') # <<>>
           /\ TrainCalls(io)[1].initial_epoch # <<>>)
            => TrainCalls(io')[1].initial_epoch[1] >= TrainCalls(io)[1].initial_epoch[1]
    ]_vars

\* C6: executions is append-only and in creation order: a step keeps every
\* entry at its place, a resumed fit and record_results add nothing, every
\* other fit appends exactly one new Execution at the end.
C6_AppendOnly ==
  [][/\ Len(executions') >= Len(executions)
     /\ \A i \in 1..Len(executions) : executions'[i].model = executions[i].model
     /\ ResumedFit => Len(executions') = Len(executions)
     /\ call'.op = "record_results" => executions' = executions
     /\ CreatingFit =>
          /\ Len(executions') = Len(executions) + 1
          /\ Last(executions').model \notin {executions[i].model : i \in 1..Len(executions)}
    ]_vars

C6_Witness ==
  /\ Len(executions) = 2
  /\ executions[1].model # executions[2].model
  /\ executions[1].instance_info.num_executions = 0
  /\ executions[2].instance_info.num_executions = 1
  /\ call.op = "fit"
  /\ call.args.resume_execution
  /\ TrainCalls(io) # <<>>
  /\ TrainCalls(io)[1].initial_epoch # <<>>

\* C10: with num_gpu > 1 the training calls of an Execution go to the
\* replica-parallel wrapper built over its clone, and record_results saves
\* the un-wrapped clone; with num_gpu <= 1 the clone itself is trained.
C10_TrainsWrapper ==
  \A i \in 1..Len(io) :
    LET e == Last(executions)
    IN /\ io[i].op \in {"fit", "fit_generator"} =>
            IF e.num_gpu > 1
            THEN heap[io[i].target] = [kind |-> "wrapper", of |-> e.model]
            ELSE io[i].target = e.model
       /\ (io[i].op = "write" /\ call.op = "fit") => io[i].to_json = e.model
       /\ io[i].op = "save_weights" => io[i].target = e.model

\* the latest call is an Instance.record_results that returned its report
Reported == call.op = "record_results" /\ call.raised = ""

\* the executions that report `metric`, and what they report
Reporting(metric) ==
  {i \in 1..Len(executions) : metric \in DOMAIN executions[i].metrics}

RECURSIVE SumOver(_, _, _)
SumOver(I, metric, direction) ==
  IF I = {} THEN 0
  ELSE LET i == CHOOSE j \in I : TRUE
       IN executions[i].metrics[metric][direction] + SumOver(I \ {i}, metric, direction)

\* x is the r-th smallest (counting repetitions) of the values reported
HasRank(x, r, metric, direction) ==
  LET I == Reporting(metric)
      below == {i \in I : executions[i].metrics[metric][direction] < x}
      upto == {i \in I : executions[i].metrics[metric][direction] <= x}
  IN Cardinality(below) < r /\ r <= Cardinality(upto)

\* a is {min, max, mean, median} of the values the executions report for
\* one direction of one metric
IsAggregateOf(a, metric, direction) ==
  LET I == Reporting(metric)
      n == Cardinality(I)
      reported == {executions[i].metrics[metric][direction] : i \in I}
  IN /\ DOMAIN a = {"min", "max", "mean", "median"}
     /\ a.min \in reported /\ \A v \in reported : a.min <= v
     /\ a.max \in reported /\ \A v \in reported : a.max >= v
     /\ a.mean.den > 0
     /\ a.mean.num * n = a.mean.den * SumOver(I, metric, direction)
     /\ a.median.den > 0
     /\ \E lo, hi \in reported :
          /\ HasRank(lo, (n + 1) \div 2, metric, direction)
          /\ HasRank(hi, n \div 2 + 1, metric, direction)
          /\ a.median.num * 2 = a.median.den * (lo + hi)

\* C7: Instance.record_results on an Instance without Executions returns a
\* report whose executions, metrics and key_metrics are empty, whatever key
\* metrics are configured, after writing the results file and issuing the
\* persistence call with ftype = 'results'.
C7_EmptyReport ==
  (call.op = "record_results" /\ executions = <<>>)
    => /\ call.raised = ""
       /\ call.value.executions = <<>>
       /\ DOMAIN call.value.metrics = {}
       /\ DOMAIN call.value.key_metrics = {}
       /\ Len(io) = 2
       /\ io[1] = [op |-> "write",
                   path |-> <<"dir", "proj", "arch", "idx", "results.json">>,
                   dumps |-> call.value]
       /\ io[2] = [op |-> "cloud_save",
                   path |-> <<"dir", "proj", "arch", "idx", "results.json">>,
                   ftype |-> "results", meta_data |-> meta_data]

C7_Witness ==
  /\ Reported
  /\ executions = <<>>
  /\ key_metrics = <<<<"acc", "max">>, <<"loss", "max">>>>
  /\ Len(io) = 2

\* C8: the report's metrics hold, for every metric some Execution reports
\* and both directions, {min, max, mean, median} of that direction's values
\* over exactly the Executions that report the metric.
C8_Aggregates ==
  Reported
    => LET metrics == call.value.metrics
       IN /\ DOMAIN metrics = UNION {DOMAIN executions[i].metrics : i \in 1..Len(executions)}
          /\ \A m \in DOMAIN metrics :
               /\ DOMAIN metrics[m] = {"min", "max"}
               /\ \A d \in {"min", "max"} : IsAggregateOf(metrics[m][d], m, d)

\* two executions with acc minima 0.5 and 0.7, only the second reporting loss
C8_Witness ==
  /\ Reported
  /\ Len(executions) = 2
  /\ executions[1].metrics = [acc |-> [min |-> 5, max |-> 7]]
  /\ executions[2].metrics = [loss |-> [min |-> 5, max |-> 5], acc |-> [min |-> 7, max |-> 7]]
  /\ call.value.metrics["acc"]["min"] =
       [min |-> 5, max |-> 7, mean |-> [num |-> 6, den |-> 1],
        median |-> [num |-> 6, den |-> 1]]
  /\ call.value.metrics["loss"]["max"] =
       [min |-> 5, max |-> 5, mean |-> [num |-> 5, den |-> 1],
        median |-> [num |-> 5, den |-> 1]]

\* the key metric names configured and aggregated in the report
KeyNames ==
  {key_metrics[i][1] : i \in 1..Len(key_metrics)} \cap DOMAIN call.value.metrics

\* C9 (as stated): for each configured pair (name, direction) with name in
\* the aggregate metrics, key_metrics[name] is metrics[name][direction]
\* ['median']; absent names are skipped; key_metrics has no other keys.
C9_KeyMetricsPerPair ==
  Reported
    => /\ DOMAIN call.value.key_metrics = KeyNames
       /\ \A i \in 1..Len(key_metrics) :
            key_metrics[i][1] \in KeyNames =>
              call.value.key_metrics[key_metrics[i][1]] =
                call.value.metrics[key_metrics[i][1]][key_metrics[i][2]].median

\* C9 (amended): for each configured name in the aggregate metrics,
\* key_metrics[name] is the median of the direction of the last configured
\* pair with that name; absent names are skipped; no other keys.
C9_KeyMetricsLastPair ==
  Reported
    => /\ DOMAIN call.value.key_metrics = KeyNames
       /\ \A n \in KeyNames :
            LET last == CHOOSE i \in 1..Len(key_metrics) :
                          /\ key_metrics[i][1] = n
                          /\ \A j \in 1..Len(key_metrics) : key_metrics[j][1] = n => j <= i
            IN call.value.key_metrics[n] =
                 call.value.metrics[n][key_metrics[last][2]].median

C9_Witness ==
  /\ Reported
  /\ key_metrics = <<<<"acc", "min">>, <<"acc", "max">>>>
  /\ "acc" \in DOMAIN call.value.metrics
  /\ call.value.metrics["acc"]["min"].median # call.value.metrics["acc"]["max"].median
  /\ call.value.key_metrics = [acc |-> call.value.metrics["acc"]["max"].median]

\* the calls of the latest API call that train a model or save one
ModelCalls ==
  {i \in 1..Len(io) : io[i].op \in {"fit", "fit_generator", "save_weights"}
                       \/ (io[i].op = "write" /\ "to_json" \in DOMAIN io[i])}

\* the model a training or save call is made on
CalledModel(c) == IF c.op = "write" THEN c.to_json ELSE c.target

\* C11: the Instance's canonical model is never trained nor saved: every
\* Execution owns a clone of it that is neither the canonical model nor the
\* model of another Execution, and every training and save call of an
\* Instance.fit call is made on the clone of the Execution it trains.
C11_CanonicalUntouched ==
  /\ \A i \in 1..Len(executions) :
       /\ executions[i].model # CanonicalModel
       /\ heap[executions[i].model] = [kind |-> "clone", of |-> CanonicalModel]
       /\ \A j \in 1..Len(executions) :
            i # j => executions[i].model # executions[j].model
  /\ \A i \in ModelCalls :
       /\ CalledModel(io[i]) # CanonicalModel
       /\ CalledModel(io[i]) = Last(executions).model

C11_Witness ==
  /\ Len(executions) = 2
  /\ call.op = "fit"
  /\ call.raised = ""
  /\ save_models
  /\ \E i, j \in ModelCalls : io[i].op = "fit" /\ io[j].op = "save_weights"

\* C12: Instance.fit leaves the caller's callbacks as they were, and every
\* training call receives the caller's callbacks, copied in their order,
\* followed by one results-recording callback as the last item; with no
\* callbacks it receives the results-recording callback alone.
C12_CallbacksCopied ==
  call.op = "fit"
    => /\ call.caller_callbacks = call.args.callbacks
       /\ \A i \in 1..Len(TrainCalls(io)) :
            LET passed == TrainCalls(io)[i].callbacks
                n == Len(call.args.callbacks)
            IN /\ Len(passed) = n + 1
               /\ SubSeq(passed, 1, n) = call.args.callbacks
               /\ passed[n + 1].type = "TunerCallback"
               /\ passed[n + 1].meta_data = Last(executions).meta_data
               /\ \A k \in 1..n : passed[k].type # "TunerCallback"

C12_Witness ==
  /\ call.op = "fit"
  /\ call.raised = ""
  /\ Len(call.args.callbacks) = 2
  /\ Len(TrainCalls(io)) = 1
  /\ Len(TrainCalls(io)[1].callbacks) = 3

\* C13: with a TensorBoard callback among the caller's callbacks, fit goes on
\* to the training call with a copy of it whose log directory is the
\* original one joined with the suffix of the execution.
C13_TensorBoardPatched ==
  (/\ call.op = "fit"
   /\ \E k \in 1..Len(call.args.callbacks) : call.args.callbacks[k].type = "TensorBoard"
   /\ keras_function \in {"fit", "generator"})
    => /\ Len(TrainCalls(io)) = 1
       /\ \A k \in 1..Len(call.args.callbacks) :
            call.args.callbacks[k].type = "TensorBoard" =>
              LET patched == TrainCalls(io)[1].callbacks[k].log_dir
                  given == call.args.callbacks[k].log_dir
              IN /\ Len(patched) = Len(given) + 1
                 /\ SubSeq(patched, 1, Len(given)) = given

\* the file writes and persistence calls among the external calls `log`
SaveCalls(log) ==
  SelectSeq(log, LAMBDA c : c.op \in {"write", "save_weights", "cloud_save"})

\* C14: record_results of an Execution with save_models writes the config of
\* the un-wrapped model to <project>-<architecture>-<instance>-<execution>-
\* config.json, then its weights to ...-weights.h5, under local_dir, each
\* write followed at once by one persistence call for that path with ftype
\* 'config' resp. 'weights' and the execution's metadata; without
\* save_models it writes nothing and makes no persistence call.
C14_SavesInOrder ==
  (call.op = "fit" /\ call.raised = "")
    => LET e == Last(executions)
           config_path == <<"dir", "proj", "arch", "idx", e.meta_data.execution, "config.json">>
           weights_path == <<"dir", "proj", "arch", "idx", e.meta_data.execution, "weights.h5">>
           n == Len(io)
       IN IF e.save_models
          THEN /\ Len(SaveCalls(io)) = 4
               /\ n >= 4
               /\ io[n - 3] = [op |-> "write", path |-> config_path, to_json |-> e.model]
               /\ io[n - 2] = [op |-> "cloud_save", path |-> config_path,
                               ftype |-> "config", meta_data |-> e.meta_data]
               /\ io[n - 1] = [op |-> "save_weights", path |-> weights_path,
                               target |-> e.model]
               /\ io[n] = [op |-> "cloud_save", path |-> weights_path,
                           ftype |-> "weights", meta_data |-> e.meta_data]
          ELSE SaveCalls(io) = <<>>

C14_Witness ==
  /\ call.op = "fit"
  /\ call.raised = ""
  /\ call.args.resume_execution
  /\ Len(executions) = 2
  /\ num_gpu = 2
  /\ Len(SaveCalls(io)) = 4

\* C15: an Instance.fit call that returns has made exactly one training
\* call, on one Execution, then recorded the raw training output on that
\* Execution (and on no other), and returns that raw output.
C15_TrainRecordReturn ==
  [][(call'.op = "fit" /\ call'.raised = "") =>
       LET e == Last(executions')
           train == {i \in 1..Len(io') : io'[i].op \in {"fit", "fit_generator"}}
           saves == {i \in 1..Len(io') : io'[i].op \in {"write", "save_weights", "cloud_save"}}
       IN /\ Cardinality(train) = 1
          /\ \A i \in train : io'[i].target = e.model
          /\ \A i \in train, j \in saves : i < j
          /\ e.recorded
          /\ DOMAIN call'.value = {"history"}
          /\ e.history = call'.value.history
          /\ DOMAIN e.metrics = DOMAIN call'.value.history
          /\ \A i \in 1..Len(executions) :
               i < Len(executions') => executions'[i] = executions[i]
    ]_vars

C15_Witness ==
  /\ call.op = "fit"
  /\ call.raised = ""
  /\ Len(executions) = 2
  /\ ~executions[1].recorded
  /\ executions[2].history = [k \in {"loss", "acc"} |-> <<5>>]
  /\ call.value = [history |-> executions[2].history]

\* C16: the history of an Execution, and the metrics derived from it, are
\* populated once: no later call overwrites a recorded history.
C16_HistoryWrittenOnce ==
  [][\A i \in 1..Len(executions) :
       executions[i].recorded =>
         /\ executions'[i].history = executions[i].history
         /\ executions'[i].metrics = executions[i].metrics
    ]_vars

\* C18: between the calls every Execution of the Instance has had
\* record_results applied, also after a fit call that raised; so
\* Instance.record_results does not fail for an unrecorded Execution and no
\* resumed training call is given initial_epoch = -1.
C18_AllRecorded ==
  /\ \A i \in 1..Len(executions) :
       executions[i].recorded /\ executions[i].num_epochs # -1
  /\ call.op = "record_results" => call.raised = ""
  /\ \A i \in 1..Len(TrainCalls(io)) : TrainCalls(io)[i].initial_epoch # <<-1>>

\* C17: training_size and validation_size are last-write-wins: after any
\* fit call training_size is len(y) of that call and, when the call passed
\* validation_data, validation_size is the length of its second element; a
\* call without validation_data keeps validation_size and raises nothing of
\* its own.
C17_SizesLastWriteWins ==
  [][call'.op = "fit" =>
       /\ training_size' = call'.args.y
       /\ IF call'.args.validation_data # <<>>
          THEN validation_size' = call'.args.validation_data[2]
          ELSE /\ validation_size' = validation_size
               /\ call'.raised \in {"", "FrameworkError"}
               /\ TrainCalls(io') # <<>>
       /\ ~call'.args.resume_execution =>
            /\ Last(executions').instance_info.training_size = training_size'
            /\ Last(executions').instance_info.validation_size = validation_size'
    ]_vars

C17_Witness ==
  /\ call.op = "fit"
  /\ call.args.validation_data = <<>>
  /\ call.args.y = 1
  /\ call.raised = ""
  /\ training_size = 1
  /\ validation_size = 2
  /\ Len(executions) = 2
  /\ executions[2].instance_info.validation_size = 2
  /\ executions[1].instance_info.training_size = 3
  /\ executions[1].instance_info.validation_size = 2

\* the files an Execution saves its model to
ArtifactPaths(e) ==
  {ExecutionPath(e.meta_data, "config.json"), ExecutionPath(e.meta_data, "weights.h5")}

\* C19: two distinct Executions of an Instance never have the same
\* (instance index, meta_data['execution']) identity, whatever the timing of
\* the fit calls under a clock of whole seconds, and so never save their
\* config or weights to the same file path.
C19_DistinctIdentity ==
  \A i, j \in 1..Len(executions) :
    i # j =>
      /\ <<executions[i].idx, executions[i].meta_data.execution>>
           # <<executions[j].idx, executions[j].meta_data.execution>>
      /\ ArtifactPaths(executions[i]) \cap ArtifactPaths(executions[j]) = {}

\* C20: the instance-info snapshot of the k-th created Execution has
\* num_executions = k - 1, and every report Instance.record_results returns
\* has num_executions = len(report['executions']) = len(executions), its
\* detail records being those of the executions in creation order.
C20_ExecutionCount ==
  /\ \A k \in 1..Len(executions) : executions[k].instance_info.num_executions = k - 1
  /\ Reported =>
       /\ call.value.num_executions = Len(call.value.executions)
       /\ Len(call.value.executions) = Len(executions)
       /\ \A i \in 1..Len(executions) :
            /\ call.value.executions[i].loss_fn.loss_of = executions[i].model
            /\ call.value.executions[i].history = executions[i].history
            /\ call.value.executions[i].meta_data = executions[i].meta_data
            /\ call.value.executions[i].num_epochs = executions[i].num_epochs

C20_Witness ==
  /\ Reported
  /\ Len(executions) = 2
  /\ executions[2].instance_info.num_executions = 1
  /\ call.value.num_executions = 2
  /\ executions[1].history # executions[2].history
  /\ call.value.executions[2].history = executions[2].history

====
